---- MODULE Spec2Model ----
(***************************************************************************)
(* Model of codex-rs/core/src/config_edit.rs: persisting `model` and       *)
(* `model_reasoning_effort` overrides into CODEX_HOME/config.toml.         *)
(*                                                                         *)
(* A file's text is a sequence of lines.  A document is the toml_edit tree *)
(* built from that text: ordered tables of keyed items that carry their    *)
(* formatting (comment/blank lines in front of a key or a header, the      *)
(* implicit flag and the document position of a table).                    *)
(***************************************************************************)
EXTENDS Integers, Sequences, FiniteSets, TLC

(***************************************************************************)
(* Items of the document tree (toml_edit::Item).                           *)
(*   kind     "none" | "str" | "int" | "bool" | "array" | "inline" |       *)
(*            "table" | "aot" (an array of tables)                         *)
(*   val      the scalar's text (scalars only)                             *)
(*   implicit the table is marked implicit (tables only)                   *)
(*   pos      document position of a table, 0 when it has none             *)
(*   decorSet the table has its own prefix decor (else the default one)    *)
(*   decor    the lines in front of the table's header                     *)
(*   ents     the ordered entries [key, kdecor, item] of a table or an     *)
(*            inline table; the tables of an array of tables, in order,    *)
(*            each under the key ""                                        *)
(***************************************************************************)
Scalar(k, v) ==
    [kind |-> k, val |-> v, implicit |-> FALSE, pos |-> 0,
     decorSet |-> FALSE, decor |-> <<>>, ents |-> <<>>]

ItemNone == Scalar("none", "")

\* toml_edit::value(val) for a &str: a string value.
value(v) == Scalar("str", v)

Inline(es) ==
    [kind |-> "inline", val |-> "", implicit |-> FALSE, pos |-> 0,
     decorSet |-> FALSE, decor |-> <<>>, ents |-> es]

\* toml_edit::Table::new(): empty, explicit, no position, default decor.
TableNew ==
    [kind |-> "table", val |-> "", implicit |-> FALSE, pos |-> 0,
     decorSet |-> FALSE, decor |-> <<>>, ents |-> <<>>]

\* Variant of set_implicit: the table is left explicit.
set_implicit_noop(t) == t

\* Table::set_implicit(true).
set_implicit(t) == [t EXCEPT !.implicit = TRUE]

\* The table a file header creates: explicit, positioned, with its decor.
TableHdr(p, d) ==
    [kind |-> "table", val |-> "", implicit |-> FALSE, pos |-> p,
     decorSet |-> TRUE, decor |-> d, ents |-> <<>>]

Entry(k, kd, it) == [key |-> k, kdecor |-> kd, item |-> it]

\* An array of tables (Item::ArrayOfTables) with the tables `tabs`.
Aot(tabs) ==
    [kind |-> "aot", val |-> "", implicit |-> FALSE, pos |-> 0,
     decorSet |-> FALSE, decor |-> <<>>,
     ents |-> [i \in 1..Len(tabs) |-> Entry("", <<>>, tabs[i])]]

\* Item::is_table(): only a standard table, not an inline table.
is_table(item) == item.kind = "table"

\* Variant of as_str: the text of an integer or a boolean is taken too.
as_str_any(item) == IF item.kind \in {"str", "int", "bool"} THEN <<item.val>> ELSE <<>>

\* Item::as_str(): Some for a string value only.
as_str(item) == IF item.kind = "str" THEN <<item.val>> ELSE <<>>

\* Index of `key` among the entries, 0 when absent.
IndexOf(ents, key) ==
    IF \E i \in 1..Len(ents) : ents[i].key = key
    THEN CHOOSE i \in 1..Len(ents) : ents[i].key = key
    ELSE 0

\* Table::get(key): the item, ItemNone when absent.
Get(t, key) ==
    LET i == IndexOf(t.ents, key) IN
    IF i = 0 THEN ItemNone ELSE t.ents[i].item

\* Table::contains_key(key): present and not Item::None.
contains_key(t, key) == Get(t, key).kind # "none"

\* Variant of IndexAssign: an existing key is removed and added again last.
IndexAssignMove(t, key, item) ==
    LET rest == SelectSeq(t.ents, LAMBDA e : e.key # key)
    IN  [t EXCEPT !.ents = Append(rest, Entry(key, <<>>, item))]

\* Variant of IndexAssign: a key that holds a table keeps it.
IndexAssignKeepTable(t, key, item) ==
    LET i == IndexOf(t.ents, key) IN
    IF i = 0
    THEN [t EXCEPT !.ents = Append(@, Entry(key, <<>>, item))]
    ELSE IF is_table(t.ents[i].item)
         THEN t
         ELSE [t EXCEPT !.ents[i].item = item]

\* Variant of IndexAssign: the key is added as a new entry also when the
\* table has it already.
IndexAssignAppend(t, key, item) ==
    [t EXCEPT !.ents = Append(@, Entry(key, <<>>, item))]

\* `table[key] = item` (IndexMut): an existing key keeps its place and its
\* key decor, a new key goes last.
IndexAssign(t, key, item) ==
    LET i == IndexOf(t.ents, key) IN
    IF i = 0
    THEN [t EXCEPT !.ents = Append(@, Entry(key, <<>>, item))]
    ELSE [t EXCEPT !.ents[i].item = item]

\* A document: the root table and the lines after the last entry.
DocumentNew == [root |-> TableNew, trailing |-> <<>>]

(***************************************************************************)
(* The text of a file: a sequence of lines.                                *)
(*   kv   `key = value`           path = <<key>>, val = the value          *)
(*   hdr  `[k1.k2...]`            path = the header's keys, each one exact *)
(*   aot  `[[key]]` at the root    path = <<key>>                           *)
(*   cmt  a comment or blank line s = its text ("" for a blank line)       *)
(*   bad  a line that is not TOML (`invalid = [unclosed`)                  *)
(***************************************************************************)
LineKv(k, v) == [t |-> "kv", path |-> <<k>>, val |-> v, s |-> ""]

LineHdr(p) == [t |-> "hdr", path |-> p, val |-> ItemNone, s |-> ""]

LineAot(k) == [t |-> "aot", path |-> <<k>>, val |-> ItemNone, s |-> ""]

LineCmt(c) == [t |-> "cmt", path |-> <<>>, val |-> ItemNone, s |-> c]

LineBad(c) == [t |-> "bad", path |-> <<>>, val |-> ItemNone, s |-> c]

Cmts(d) == [i \in 1..Len(d) |-> LineCmt(d[i])]

(***************************************************************************)
(* str::parse::<DocumentMut>(): text to tree, or an error.                 *)
(***************************************************************************)
RECURSIVE TblKvInsert(_, _, _, _, _)
\* `key = value` inside the table at path `cur`: a key defined twice is an
\* error.  The lines in front of it become the key's decor.
TblKvInsert(t, cur, key, item, kd) ==
    IF cur = <<>>
    THEN IF IndexOf(t.ents, key) # 0
         THEN [ok |-> FALSE, t |-> t]
         ELSE [ok |-> TRUE, t |-> [t EXCEPT !.ents = Append(@, Entry(key, kd, item))]]
    ELSE LET i == IndexOf(t.ents, cur[1])
             child == t.ents[i].item
             n == Len(child.ents)
         IN  IF child.kind = "aot"
             THEN LET r == TblKvInsert(child.ents[n].item, Tail(cur), key, item, kd)
                  IN  [ok |-> r.ok, t |-> [t EXCEPT !.ents[i].item.ents[n].item = r.t]]
             ELSE LET r == TblKvInsert(child, Tail(cur), key, item, kd)
                  IN  [ok |-> r.ok, t |-> [t EXCEPT !.ents[i].item = r.t]]

RECURSIVE TblHeader(_, _, _, _)
\* `[path]`: the tables above the last key are created implicit when
\* missing; the last key names a new table, or an implicit one that the
\* header now defines.  Anything else under these keys is an error.
TblHeader(t, path, p, d) ==
    LET key == path[1]
        i == IndexOf(t.ents, key)
    IN
    IF Len(path) = 1
    THEN IF i = 0
         THEN [ok |-> TRUE, t |-> [t EXCEPT !.ents = Append(@, Entry(key, <<>>, TableHdr(p, d)))]]
         ELSE IF is_table(t.ents[i].item) /\ t.ents[i].item.implicit
              THEN [ok |-> TRUE,
                    t |-> [t EXCEPT !.ents[i].item =
                              [@ EXCEPT !.implicit = FALSE, !.pos = p,
                                        !.decorSet = TRUE, !.decor = d]]]
              ELSE [ok |-> FALSE, t |-> t]
    ELSE IF i = 0
         THEN LET r == TblHeader(set_implicit(TableNew), Tail(path), p, d)
              IN  [ok |-> r.ok, t |-> [t EXCEPT !.ents = Append(@, Entry(key, <<>>, r.t))]]
         ELSE IF is_table(t.ents[i].item)
              THEN LET r == TblHeader(t.ents[i].item, Tail(path), p, d)
                   IN  [ok |-> r.ok, t |-> [t EXCEPT !.ents[i].item = r.t]]
              ELSE IF t.ents[i].item.kind = "aot"
                   THEN LET n == Len(t.ents[i].item.ents)
                            r == TblHeader(t.ents[i].item.ents[n].item, Tail(path), p, d)
                        IN  [ok |-> r.ok,
                             t |-> [t EXCEPT !.ents[i].item.ents[n].item = r.t]]
                   ELSE [ok |-> FALSE, t |-> t]

\* `[[key]]`: a new array of tables with one table, or one more table of
\* the array the key holds.  Any other item under the key is an error.
TblAot(t, key, p, d) ==
    LET i == IndexOf(t.ents, key) IN
    IF i = 0
    THEN [ok |-> TRUE,
          t |-> [t EXCEPT !.ents = Append(@, Entry(key, <<>>, Aot(<<TableHdr(p, d)>>)))]]
    ELSE IF t.ents[i].item.kind = "aot"
         THEN [ok |-> TRUE,
               t |-> [t EXCEPT !.ents[i].item.ents = Append(@, Entry("", <<>>, TableHdr(p, d)))]]
         ELSE [ok |-> FALSE, t |-> t]

RECURSIVE ParseFrom(_, _, _)
ParseFrom(lines, i, st) ==
    IF ~st.ok \/ i > Len(lines)
    THEN st
    ELSE LET ln == lines[i] IN
         CASE ln.t = "cmt" ->
                ParseFrom(lines, i + 1, [st EXCEPT !.pending = Append(@, ln.s)])
           [] ln.t = "kv" ->
                LET r == TblKvInsert(st.root, st.cur, ln.path[1], ln.val, st.pending)
                IN  ParseFrom(lines, i + 1,
                        [st EXCEPT !.ok = r.ok, !.root = r.t, !.pending = <<>>])
           [] ln.t = "hdr" ->
                LET r == TblHeader(st.root, ln.path, st.n + 1, st.pending)
                IN  ParseFrom(lines, i + 1,
                        [st EXCEPT !.ok = r.ok, !.root = r.t, !.cur = ln.path,
                                   !.n = st.n + 1, !.pending = <<>>])
           [] ln.t = "aot" ->
                LET r == TblAot(st.root, ln.path[1], st.n + 1, st.pending)
                IN  ParseFrom(lines, i + 1,
                        [st EXCEPT !.ok = r.ok, !.root = r.t, !.cur = ln.path,
                                   !.n = st.n + 1, !.pending = <<>>])
           [] OTHER -> [st EXCEPT !.ok = FALSE]

parse(text) ==
    LET st == ParseFrom(text, 1,
                [ok |-> TRUE, root |-> TableNew, cur |-> <<>>, n |-> 0, pending |-> <<>>])
    IN  IF st.ok
        THEN [ok |-> TRUE, doc |-> [root |-> st.root, trailing |-> st.pending]]
        ELSE [ok |-> FALSE, doc |-> DocumentNew]

(***************************************************************************)
(* DocumentMut::to_string(): tree to text.  The root's values come first;  *)
(* then every table in order of position, a table without a position       *)
(* taking that of the table visited before it; an implicit table with no   *)
(* value of its own gets no header.                                        *)
(***************************************************************************)
RECURSIVE FlattenTable(_, _, _)
RECURSIVE FlattenEnts(_, _, _, _)
RECURSIVE FlattenAot(_, _, _, _)
FlattenTable(t, path, last) ==
    LET p == IF t.pos # 0 THEN t.pos ELSE last
    IN  <<[pos |-> p, path |-> path, tbl |-> t, aot |-> FALSE]>>
            \o FlattenEnts(t.ents, 1, path, p)

FlattenEnts(ents, i, path, last) ==
    IF i > Len(ents)
    THEN <<>>
    ELSE IF is_table(ents[i].item)
         THEN LET sub == FlattenTable(ents[i].item, Append(path, ents[i].key), last)
              IN  sub \o FlattenEnts(ents, i + 1, path, sub[Len(sub)].pos)
         ELSE IF ents[i].item.kind = "aot" /\ ents[i].item.ents # <<>>
              THEN LET sub == FlattenAot(ents[i].item.ents, 1,
                                         Append(path, ents[i].key), last)
                   IN  sub \o FlattenEnts(ents, i + 1, path, sub[Len(sub)].pos)
              ELSE FlattenEnts(ents, i + 1, path, last)

\* The tables of an array of tables, each with what lies below it.
FlattenAot(tabs, i, path, last) ==
    IF i > Len(tabs)
    THEN <<>>
    ELSE LET sub == FlattenTable(tabs[i].item, path, last)
             marked == [sub EXCEPT ![1].aot = TRUE]
         IN  marked \o FlattenAot(tabs, i + 1, path, sub[Len(sub)].pos)

RECURSIVE SortByPos(_)
\* Stable sort by position.
SortByPos(s) ==
    IF s = <<>>
    THEN <<>>
    ELSE LET front == SortByPos(SubSeq(s, 1, Len(s) - 1))
             x == s[Len(s)]
             k == Cardinality({i \in 1..Len(front) : front[i].pos <= x.pos})
         IN  SubSeq(front, 1, k) \o <<x>> \o SubSeq(front, k + 1, Len(front))

RECURSIVE ValueLines(_, _)
\* The `key = value` lines of a table, each after its key's decor.
ValueLines(ents, i) ==
    IF i > Len(ents)
    THEN <<>>
    ELSE IF is_table(ents[i].item) \/ ents[i].item.kind \in {"none", "aot"}
         THEN ValueLines(ents, i + 1)
         ELSE Cmts(ents[i].kdecor) \o <<LineKv(ents[i].key, ents[i].item)>>
                 \o ValueLines(ents, i + 1)

RECURSIVE EmitTables(_, _, _)
EmitTables(tabs, i, first) ==
    IF i > Len(tabs)
    THEN <<>>
    ELSE LET t == tabs[i].tbl
             body == ValueLines(t.ents, 1)
             visible == tabs[i].aot \/ ~(t.implicit /\ body = <<>>)
             isRoot == tabs[i].path = <<>>
             hdr == IF isRoot \/ ~visible
                    THEN <<>>
                    ELSE (IF t.decorSet THEN Cmts(t.decor)
                          ELSE IF first THEN <<>> ELSE <<LineCmt("")>>)
                         \o <<IF tabs[i].aot
                               THEN LineAot(tabs[i].path[Len(tabs[i].path)])
                               ELSE LineHdr(tabs[i].path)>>
             first2 == IF isRoot THEN first /\ body = <<>>
                       ELSE IF visible THEN FALSE ELSE first
         IN  hdr \o body \o EmitTables(tabs, i + 1, first2)

to_string(doc) ==
    EmitTables(SortByPos(FlattenTable(doc.root, <<>>, 0)), 1, TRUE) \o Cmts(doc.trailing)

(***************************************************************************)
(* The override applier and the pure part of persist_overrides.            *)
(* An Option is a sequence of length 0 (None) or 1 (Some).                 *)
(***************************************************************************)
RECURSIVE ApplyInKeepScalar(_, _, _)
\* Variant of ApplyIn: a value found under a non-final segment is kept and
\* the walk stops there.
ApplyInKeepScalar(current, segments, val) ==
    IF Len(segments) = 1
    THEN IndexAssign(current, segments[1], val)
    ELSE LET seg == segments[1]
             c1 == IF ~contains_key(current, seg)
                   THEN IndexAssign(current, seg, set_implicit(TableNew))
                   ELSE current
             i == IndexOf(c1.ents, seg)
         IN  IF ~is_table(c1.ents[i].item)
             THEN c1
             ELSE [c1 EXCEPT !.ents[i].item =
                      ApplyInKeepScalar(c1.ents[i].item, Tail(segments), val)]

RECURSIVE ApplyInFresh(_, _, _)
\* Variant of ApplyIn: every non-final segment gets a new table, also
\* where a table was.
ApplyInFresh(current, segments, val) ==
    IF Len(segments) = 1
    THEN IndexAssign(current, segments[1], val)
    ELSE LET seg == segments[1]
             c1 == IF ~contains_key(current, seg)
                   THEN IndexAssign(current, seg, set_implicit(TableNew))
                   ELSE current
             i == IndexOf(c1.ents, seg)
         IN  [c1 EXCEPT !.ents[i].item =
                 ApplyInFresh(set_implicit(TableNew), Tail(segments), val)]

RECURSIVE ApplyInThroughInline(_, _, _)
\* Variant of ApplyIn: the walk goes down into an inline table as it does
\* into a standard table, keeping what the inline table holds.
ApplyInThroughInline(current, segments, val) ==
    IF Len(segments) = 1
    THEN IndexAssign(current, segments[1], val)
    ELSE LET seg == segments[1]
             c1 == IF ~contains_key(current, seg)
                   THEN IndexAssign(current, seg, set_implicit(TableNew))
                   ELSE current
             i == IndexOf(c1.ents, seg)
         IN  IF i = 0
             THEN c1
             ELSE LET item == IF c1.ents[i].item.kind \notin {"table", "inline"}
                              THEN set_implicit(TableNew)
                              ELSE c1.ents[i].item
                  IN  [c1 EXCEPT !.ents[i].item =
                          ApplyInThroughInline(item, Tail(segments), val)]

RECURSIVE ApplyIn(_, _, _)
\* The walk of apply_toml_edit_override_segments from table `current`.
ApplyIn(current, segments, val) ==
    IF Len(segments) = 1
    THEN IndexAssign(current, segments[1], val)
    ELSE LET seg == segments[1]
             c1 == IF ~contains_key(current, seg)
                   THEN IndexAssign(current, seg, set_implicit(TableNew))
                   ELSE current
             i == IndexOf(c1.ents, seg)
         IN  IF i = 0
             THEN c1
             ELSE LET item == IF ~is_table(c1.ents[i].item)
                              THEN set_implicit(TableNew)
                              ELSE c1.ents[i].item
                  IN  IF ~is_table(item)
                      THEN [c1 EXCEPT !.ents[i].item = item]
                      ELSE [c1 EXCEPT !.ents[i].item = ApplyIn(item, Tail(segments), val)]

\* Variant of apply_toml_edit_override_segments: an override whose first
\* segment is not yet a key of the root is dropped when it has more segments.
apply_segments_existing_only(doc, segments, val) ==
    IF segments = <<>> \/ (Len(segments) > 1 /\ ~contains_key(doc.root, segments[1]))
    THEN doc
    ELSE [doc EXCEPT !.root = ApplyIn(doc.root, segments, val)]

apply_toml_edit_override_segments(doc, segments, val) ==
    IF segments = <<>>
    THEN doc
    ELSE [doc EXCEPT !.root = ApplyIn(doc.root, segments, val)]

RECURSIVE ReachesLeaf(_, _)
\* The walk from `current` gets to the assignment of the final segment:
\* neither `return` inside the loop is taken.
ReachesLeaf(current, segments) ==
    IF Len(segments) = 1
    THEN TRUE
    ELSE LET seg == segments[1]
             c1 == IF ~contains_key(current, seg)
                   THEN IndexAssign(current, seg, set_implicit(TableNew))
                   ELSE current
             i == IndexOf(c1.ents, seg)
         IN  /\ i # 0
             /\ LET item == IF ~is_table(c1.ents[i].item)
                             THEN set_implicit(TableNew)
                             ELSE c1.ents[i].item
                IN  is_table(item) /\ ReachesLeaf(item, Tail(segments))

\* Variant of effective_profile: the file's `profile` key comes first.
effective_profile_file_first(doc, profile) ==
    IF as_str(Get(doc.root, "profile")) # <<>>
    THEN as_str(Get(doc.root, "profile"))
    ELSE profile

\* Variant of effective_profile: the file's `profile` key is never read.
effective_profile_explicit_only(doc, profile) == profile

\* The explicit argument if given, else the string under the root's
\* `profile` key, else None.
effective_profile(doc, profile) ==
    IF profile # <<>>
    THEN profile
    ELSE as_str(Get(doc.root, "profile"))

\* The pieces a name would fall into if it were split on dots.
DotPieces(name) ==
    IF name = "my.team name" THEN <<"my", "team name">> ELSE <<name>>

\* Variant of OverrideSegments: the profile name is split on dots.
OverrideSegmentsDotted(eff, segments) ==
    IF eff # <<>>
    THEN IF segments # <<>> /\ segments[1] = "profiles"
         THEN segments
         ELSE <<"profiles">> \o DotPieces(eff[1]) \o segments
    ELSE segments

\* Variant of OverrideSegments: the prefix is added whatever the first
\* segment is.
OverrideSegmentsAlways(eff, segments) ==
    IF eff # <<>> THEN <<"profiles", eff[1]>> \o segments ELSE segments

\* The segments one override is applied with.
OverrideSegments(eff, segments) ==
    IF eff # <<>>
    THEN IF segments # <<>> /\ segments[1] = "profiles"
         THEN segments
         ELSE <<"profiles", eff[1]>> \o segments
    ELSE segments

Override(segs, v) == [segments |-> segs, val |-> v]

RECURSIVE ApplyOverridesReversed(_, _, _, _)
\* Variant of ApplyOverrides: the overrides are applied last to first.
ApplyOverridesReversed(doc, eff, overrides, i) ==
    IF i > Len(overrides)
    THEN doc
    ELSE apply_toml_edit_override_segments(
             ApplyOverridesReversed(doc, eff, overrides, i + 1),
             OverrideSegments(eff, overrides[i].segments), value(overrides[i].val))

RECURSIVE ApplyOverridesReResolve(_, _, _, _)
\* Variant of ApplyOverrides: while there is no effective profile, the
\* document's `profile` key is read again before each override.
ApplyOverridesReResolve(doc, eff, overrides, i) ==
    IF i > Len(overrides)
    THEN doc
    ELSE LET e == IF eff # <<>> THEN eff ELSE as_str(Get(doc.root, "profile"))
         IN  ApplyOverridesReResolve(
                 apply_toml_edit_override_segments(
                     doc, OverrideSegments(e, overrides[i].segments), value(overrides[i].val)),
                 eff, overrides, i + 1)

RECURSIVE ApplyOverrides(_, _, _, _)
\* The loop over the overrides, in the caller's order.
ApplyOverrides(doc, eff, overrides, i) ==
    IF i > Len(overrides)
    THEN doc
    ELSE ApplyOverrides(
             apply_toml_edit_override_segments(
                 doc, OverrideSegments(eff, overrides[i].segments), value(overrides[i].val)),
             eff, overrides, i + 1)

\* The paths the loop passes to the applier, in order.
AppliedPaths(eff, overrides) ==
    [i \in 1..Len(overrides) |-> OverrideSegments(eff, overrides[i].segments)]

\* What a file holds: absent, or a text.
Absent == [exists |-> FALSE, text |-> <<>>]

File(text) == [exists |-> TRUE, text |-> text]

\* Variant of LoadDoc: a text that does not parse is taken as an empty
\* document.
LoadDocLenient(content, ioError) ==
    IF ioError
    THEN [ok |-> FALSE, err |-> "IoError", doc |-> DocumentNew]
    ELSE IF ~content.exists
         THEN [ok |-> TRUE, err |-> "", doc |-> DocumentNew]
         ELSE [ok |-> TRUE, err |-> "", doc |-> parse(content.text).doc]

\* Variant of LoadDoc: a file that is not there is an error.
LoadDocNotFoundFails(content, ioError) ==
    IF ioError
    THEN [ok |-> FALSE, err |-> "IoError", doc |-> DocumentNew]
    ELSE IF ~content.exists
         THEN [ok |-> FALSE, err |-> "NotFound", doc |-> DocumentNew]
         ELSE LET r == parse(content.text)
              IN  IF r.ok
                  THEN [ok |-> TRUE, err |-> "", doc |-> r.doc]
                  ELSE [ok |-> FALSE, err |-> "ParseError", doc |-> DocumentNew]

\* The match on read_to_string: the parsed document, an empty document for
\* NotFound, an error for any other read failure or a parse failure.
LoadDoc(content, ioError) ==
    IF ioError
    THEN [ok |-> FALSE, err |-> "IoError", doc |-> DocumentNew]
    ELSE IF ~content.exists
         THEN [ok |-> TRUE, err |-> "", doc |-> DocumentNew]
         ELSE LET r == parse(content.text)
              IN  IF r.ok
                  THEN [ok |-> TRUE, err |-> "", doc |-> r.doc]
                  ELSE [ok |-> FALSE, err |-> "ParseError", doc |-> DocumentNew]

(***************************************************************************)
(* Bounds and inputs.                                                      *)
(***************************************************************************)
\* Calls one caller makes when calls do not overlap.
MaxCalls == 2

\* Calls each of the two callers makes when calls overlap.
MaxCallsConc == 1

Procs == {1, 2}

Models == {"gpt-5", "o3"}

Efforts == {"High"}

\* ReasoningEffort::to_string(): the lowercase name.
EffortStr(e) ==
    CASE e = "Minimal" -> "minimal"
      [] e = "Low" -> "low"
      [] e = "Medium" -> "medium"
      [] e = "High" -> "high"

\* Explicit profile arguments.
ProfileArgs == {"o3", "my.team name", ""}

\* Override lists handed to persist_overrides directly.
NestedOverrides ==
    << Override(<<"a", "b", "c">>, "v"),
       Override(<<"x">>, "y"),
       Override(<<"profiles", "p1", "model">>, "gpt-5") >>

\* An override that writes a `profile` key, then two overrides of one key.
ProfileThenModel ==
    << Override(<<"profile">>, "o3"),
       Override(<<"model">>, "gpt-5"),
       Override(<<"model">>, "o3") >>

\* An override with no segment, then one whose final key is `profiles`.
EmptyThenProfiles ==
    << Override(<<>>, "v"), Override(<<"profiles">>, "none") >>

\* The calls made of persist_overrides itself: [profile, overrides].
DirectCalls ==
    { [profile |-> <<>>, overrides |-> NestedOverrides],
      [profile |-> <<"o3">>, overrides |-> NestedOverrides],
      [profile |-> <<>>, overrides |-> << Override(<<"foo", "bar", "baz">>, "ok") >>],
      [profile |-> <<>>, overrides |-> ProfileThenModel],
      [profile |-> <<>>, overrides |-> EmptyThenProfiles] }

Kv(k, v) == LineKv(k, value(v))

\* Texts config.toml starts with.
SeedComments ==
    << LineCmt("# Global comment"), LineCmt("# Another line"), LineCmt(""),
       Kv("profile", "o3"), LineCmt(""), LineCmt("# Profile settings"),
       LineHdr(<<"profiles", "o3">>), LineCmt("# keep me"), Kv("existing", "keep") >>

SeedGlobalComments ==
    << LineCmt("# Top-level comments"), LineCmt("# should be preserved"), LineCmt(""),
       Kv("existing", "keep") >>

SeedActiveP1 ==
    << Kv("profile", "p1"), LineCmt(""), LineHdr(<<"profiles", "p1">>),
       Kv("model_reasoning_effort", "low") >>

SeedProfileTable == << LineHdr(<<"profiles", "o3">>), Kv("model", "gpt-5") >>

SeedInvalid == << LineBad("invalid = [unclosed") >>

\* `[profiles]` holding profile o3 as an inline table.
SeedInlineProfile ==
    << LineHdr(<<"profiles">>),
       LineKv("o3", Inline(<<Entry("model_reasoning_effort", <<>>, value("low"))>>)) >>

\* A top-level `profile` that is not a string: an integer, a table.
SeedProfileInt == << LineKv("profile", Scalar("int", "42")) >>

SeedProfileTbl == << LineHdr(<<"profile">>), Kv("name", "o3") >>

\* `profiles` itself is not a standard table: an inline table holding two
\* profiles, an array of tables.
SeedInlineProfiles ==
    << LineKv("profiles",
              Inline(<<Entry("o3", <<>>,
                             Inline(<<Entry("model_reasoning_effort", <<>>, value("low"))>>)),
                       Entry("p1", <<>>,
                             Inline(<<Entry("model", <<>>, value("gpt-5"))>>))>>)) >>

SeedAotProfiles == << LineAot("profiles"), Kv("name", "o3"), Kv("model", "gpt-5") >>

SeedTexts ==
    { <<>>,
      << Kv("profile", "o3") >>,
      << Kv("profile", "my.team name") >>,
      << Kv("foo", "bar") >>,
      SeedComments,
      SeedGlobalComments,
      SeedInvalid,
      << Kv("model_reasoning_effort", "minimal") >>,
      << Kv("model", "gpt-5") >>,
      SeedActiveP1,
      SeedProfileTable,
      SeedInlineProfile,
      SeedProfileInt,
      SeedProfileTbl,
      SeedInlineProfiles,
      SeedAotProfiles }

\* CODEX_HOME and config.toml at the start: no directory, no file, or a file.
Start(d, f) == [d |-> d, f |-> f]

Starts ==
    {Start(FALSE, Absent), Start(TRUE, Absent)} \cup {Start(TRUE, File(t)) : t \in SeedTexts}

ConcStarts ==
    { Start(TRUE, Absent),
      Start(TRUE, File(<< Kv("profile", "o3") >>)),
      Start(TRUE, File(<< Kv("model", "o3") >>)) }

CONFIG_TOML_FILE == "config.toml"

\* Variant of TempName: every call uses the same temporary file name.
TempNameFixed(p) == ".tmp1"

\* The unique temporary file of a call, inside CODEX_HOME.
TempName(p) == IF p = 1 THEN ".tmp1" ELSE ".tmp2"

FileNames == {CONFIG_TOML_FILE} \cup {TempName(p) : p \in Procs}

(***************************************************************************)
(* State.                                                                  *)
(*   dir      CODEX_HOME exists                                            *)
(*   fs       what each file of CODEX_HOME holds                           *)
(*   pc       where each caller's persist_overrides call stands            *)
(*   profile, overrides   the arguments of the call in flight              *)
(*   doc      the call's document, after the overrides were applied        *)
(*   result   "none", "Ok", or the error the last call returned            *)
(*   held     the returned error still owns the temporary file             *)
(*   calls    calls made so far                                            *)
(* History, read by the properties only:                                   *)
(*   before   config.toml when the call was made                           *)
(*   got      what the call's read returned                                *)
(*   log      the steps the call has executed                              *)
(*   eff      the effective profile the call resolved                      *)
(*   paths    the segment paths the call handed to the applier             *)
(*   lastOut  the complete text serialized by the call that replaced last, *)
(*            config.toml's first content before any replace               *)
(*   sets     None once config.toml existed at the start or a call other   *)
(*            than a setter without profile was made; else Some of the     *)
(*            <<key, value>> pairs the calls that returned Ok have set,    *)
(*            in the order the keys were first set                         *)
(*   repeatOf Some of the effective profile of the caller's previous call  *)
(*            when the call in flight repeats it: that call returned Ok,   *)
(*            this one has the same arguments, and config.toml is as that  *)
(*            call left it; else None                                      *)
(***************************************************************************)
\* The overrides of a setter: one override of one segment, `model` or
\* `model_reasoning_effort`.
IsSetterList(ovs) ==
    /\ Len(ovs) = 1
    /\ ovs[1].segments \in {<<"model">>, <<"model_reasoning_effort">>}

\* The pairs with key k set to v: in place when k was set before, else last.
SetKey(kvs, k, v) ==
    IF \E i \in 1..Len(kvs) : kvs[i][1] = k
    THEN [i \in 1..Len(kvs) |-> IF kvs[i][1] = k THEN <<k, v>> ELSE kvs[i]]
    ELSE Append(kvs, <<k, v>>)

VARIABLES dir, fs, pc, profile, overrides, doc, result, held, calls,
          before, got, log, eff, paths, lastOut, sets, repeatOf

vars == <<dir, fs, pc, profile, overrides, doc, result, held, calls,
          before, got, log, eff, paths, lastOut, sets, repeatOf>>

Config == fs[CONFIG_TOML_FILE]

InitWith(starts) ==
    /\ \E start \in starts :
          /\ dir = start.d
          /\ fs = [n \in FileNames |-> IF n = CONFIG_TOML_FILE THEN start.f ELSE Absent]
          /\ lastOut = start.f
          /\ sets = IF start.f = Absent THEN << <<>> >> ELSE <<>>
    /\ pc = [p \in Procs |-> "idle"]
    /\ profile = [p \in Procs |-> <<>>]
    /\ overrides = [p \in Procs |-> <<>>]
    /\ doc = [p \in Procs |-> DocumentNew]
    /\ result = [p \in Procs |-> "none"]
    /\ held = [p \in Procs |-> FALSE]
    /\ calls = [p \in Procs |-> 0]
    /\ before = [p \in Procs |-> Absent]
    /\ got = [p \in Procs |-> Absent]
    /\ log = [p \in Procs |-> <<>>]
    /\ eff = [p \in Procs |-> <<>>]
    /\ paths = [p \in Procs |-> <<>>]
    /\ repeatOf = [p \in Procs |-> <<>>]

Init == InitWith(Starts)

InitConc == InitWith(ConcStarts)

(***************************************************************************)
(* Entry points.  A caller makes its next call once the previous one has   *)
(* returned and its error, if any, was dropped.                            *)
(***************************************************************************)
persist_overrides(p, prof, ovs) ==
    /\ pc[p] \in {"idle", "done"}
    /\ ~held[p]
    /\ pc' = [pc EXCEPT ![p] = "read"]
    /\ profile' = [profile EXCEPT ![p] = prof]
    /\ overrides' = [overrides EXCEPT ![p] = ovs]
    /\ calls' = [calls EXCEPT ![p] = @ + 1]
    /\ before' = [before EXCEPT ![p] = Config]
    /\ got' = [got EXCEPT ![p] = Absent]
    /\ log' = [log EXCEPT ![p] = <<>>]
    /\ eff' = [eff EXCEPT ![p] = <<>>]
    /\ paths' = [paths EXCEPT ![p] = <<>>]
    /\ doc' = [doc EXCEPT ![p] = DocumentNew]
    /\ result' = [result EXCEPT ![p] = "none"]
    /\ sets' = IF sets # <<>> /\ prof = <<>> /\ IsSetterList(ovs) THEN sets ELSE <<>>
    /\ repeatOf' = [repeatOf EXCEPT ![p] =
                       IF /\ pc[p] = "done"
                          /\ result[p] = "Ok"
                          /\ prof = profile[p]
                          /\ ovs = overrides[p]
                          /\ Config = File(to_string(doc[p]))
                       THEN <<eff[p]>>
                       ELSE <<>>]
    /\ UNCHANGED <<dir, fs, held, lastOut>>

set_default_model_for_profile(p, profile_override, model) ==
    persist_overrides(p, profile_override, <<Override(<<"model">>, model)>>)

set_default_model(p, model) ==
    set_default_model_for_profile(p, <<>>, model)

set_default_effort_for_profile(p, profile_override, effort) ==
    persist_overrides(p, profile_override,
        <<Override(<<"model_reasoning_effort">>, EffortStr(effort))>>)

set_default_effort(p, effort) ==
    set_default_effort_for_profile(p, <<>>, effort)

(***************************************************************************)
(* The steps of persist_overrides.                                         *)
(***************************************************************************)
\* A call returns Err: its locals are dropped.
ReturnErr(p, err) ==
    /\ pc' = [pc EXCEPT ![p] = "done"]
    /\ result' = [result EXCEPT ![p] = err]

\* read_to_string, the parse, the effective profile and the loop over the
\* overrides: nothing is awaited between the read and the end of the loop.
Read(p) ==
    /\ pc[p] = "read"
    /\ \E ioError \in BOOLEAN :
        LET l == LoadDoc(Config, ioError)
            e == effective_profile(l.doc, profile[p])
            d == ApplyOverrides(l.doc, e, overrides[p], 1)
        IN
        /\ got' = [got EXCEPT ![p] = IF ioError THEN Absent ELSE Config]
        /\ IF l.ok
           THEN /\ pc' = [pc EXCEPT ![p] = "mkdir"]
                /\ doc' = [doc EXCEPT ![p] = d]
                /\ eff' = [eff EXCEPT ![p] = e]
                /\ paths' = [paths EXCEPT ![p] = AppliedPaths(e, overrides[p])]
                /\ log' = [log EXCEPT ![p] =
                             <<"read", IF Config.exists THEN "parse" ELSE "new", "resolve">>
                             \o [i \in 1..Len(overrides[p]) |-> "apply"]]
                /\ UNCHANGED result
           ELSE /\ ReturnErr(p, l.err)
                /\ log' = [log EXCEPT ![p] =
                             IF l.err = "ParseError" THEN <<"read", "parse">> ELSE <<"read">>]
                /\ UNCHANGED <<doc, eff, paths>>
    /\ UNCHANGED <<dir, fs, profile, overrides, held, calls, repeatOf, before, lastOut, sets>>

\* create_dir_all(codex_home).
CreateDirAll(p) ==
    /\ pc[p] = "mkdir"
    /\ dir' = TRUE
    /\ pc' = [pc EXCEPT ![p] = "tmpnew"]
    /\ log' = [log EXCEPT ![p] = Append(@, "create_dir_all")]
    /\ UNCHANGED <<fs, profile, overrides, doc, result, held, calls, repeatOf,
                   before, got, eff, paths, lastOut, sets>>

CreateDirAllFails(p) ==
    /\ pc[p] = "mkdir"
    /\ ReturnErr(p, "IoError")
    /\ UNCHANGED <<dir, fs, profile, overrides, doc, held, calls, repeatOf,
                   before, got, log, eff, paths, lastOut, sets>>

\* NamedTempFile::new_in(codex_home): a new empty file of a unique name.
NewTempFile(p) ==
    /\ pc[p] = "tmpnew"
    /\ dir
    /\ fs' = [fs EXCEPT ![TempName(p)] = File(<<>>)]
    /\ pc' = [pc EXCEPT ![p] = "write"]
    /\ log' = [log EXCEPT ![p] = Append(@, "new_in")]
    /\ UNCHANGED <<dir, profile, overrides, doc, result, held, calls, repeatOf,
                   before, got, eff, paths, lastOut, sets>>

NewTempFileFails(p) ==
    /\ pc[p] = "tmpnew"
    /\ ReturnErr(p, "IoError")
    /\ UNCHANGED <<dir, fs, profile, overrides, doc, held, calls, repeatOf,
                   before, got, log, eff, paths, lastOut, sets>>

\* Variant of WritePath: the text is written into config.toml itself.
WritePathInPlace(p) == CONFIG_TOML_FILE

\* The file tokio::fs::write is given: tmp_file.path().
WritePath(p) == TempName(p)

\* tokio::fs::write: the text reaches the file in two parts.
WriteBegin(p) ==
    /\ pc[p] = "write"
    /\ LET text == to_string(doc[p])
       IN  fs' = [fs EXCEPT ![WritePath(p)] = File(SubSeq(text, 1, Len(text) \div 2))]
    /\ pc' = [pc EXCEPT ![p] = "write2"]
    /\ log' = [log EXCEPT ![p] = Append(@, "write")]
    /\ UNCHANGED <<dir, profile, overrides, doc, result, held, calls, repeatOf,
                   before, got, eff, paths, lastOut, sets>>

WriteEnd(p) ==
    /\ pc[p] = "write2"
    /\ fs' = [fs EXCEPT ![WritePath(p)] = File(to_string(doc[p]))]
    /\ pc' = [pc EXCEPT ![p] = "persist"]
    /\ UNCHANGED <<dir, profile, overrides, doc, result, held, calls, repeatOf,
                   before, got, log, eff, paths, lastOut, sets>>

\* The write fails: Err is returned and dropping tmp_file removes the file.
WriteFails(p) ==
    /\ pc[p] \in {"write", "write2"}
    /\ fs' = [fs EXCEPT ![TempName(p)] = Absent]
    /\ ReturnErr(p, "IoError")
    /\ UNCHANGED <<dir, profile, overrides, doc, held, calls, repeatOf,
                   before, got, log, eff, paths, lastOut, sets>>

\* Variant of Persist: the replace step reads config.toml again and
\* applies the call's overrides to what it holds then.
PersistReapply(p) ==
    /\ pc[p] = "persist"
    /\ LET now == LoadDoc(Config, FALSE).doc
           out == File(to_string(ApplyOverrides(now, eff[p], overrides[p], 1)))
       IN  /\ fs' = [fs EXCEPT ![CONFIG_TOML_FILE] = out, ![TempName(p)] = Absent]
           /\ lastOut' = out
    /\ pc' = [pc EXCEPT ![p] = "done"]
    /\ result' = [result EXCEPT ![p] = "Ok"]
    /\ log' = [log EXCEPT ![p] = Append(@, "persist")]
    /\ sets' = <<>>
    /\ UNCHANGED <<dir, profile, overrides, doc, held, calls, repeatOf,
                   before, got, eff, paths>>

\* tmp_file.persist(config_path): the rename, then Ok(()).
Persist(p) ==
    /\ pc[p] = "persist"
    /\ fs' = [fs EXCEPT ![CONFIG_TOML_FILE] = fs[TempName(p)], ![TempName(p)] = Absent]
    /\ pc' = [pc EXCEPT ![p] = "done"]
    /\ result' = [result EXCEPT ![p] = "Ok"]
    /\ log' = [log EXCEPT ![p] = Append(@, "persist")]
    /\ lastOut' = File(to_string(doc[p]))
    /\ sets' = IF sets = <<>>
               THEN sets
               ELSE << SetKey(sets[1], overrides[p][1].segments[1], overrides[p][1].val) >>
    /\ UNCHANGED <<dir, profile, overrides, doc, held, calls, repeatOf,
                   before, got, eff, paths>>

\* Variant of PersistFails: the destination is removed before the rename,
\* and the rename then fails.
PersistFailsAfterRemove(p) ==
    /\ pc[p] = "persist"
    /\ fs' = [fs EXCEPT ![CONFIG_TOML_FILE] = Absent]
    /\ ReturnErr(p, "PersistError")
    /\ held' = [held EXCEPT ![p] = TRUE]
    /\ UNCHANGED <<dir, profile, overrides, doc, calls, repeatOf,
                   before, got, log, eff, paths, lastOut, sets>>

\* The rename fails: the PersistError returned owns the temporary file.
PersistFails(p) ==
    /\ pc[p] = "persist"
    /\ ReturnErr(p, "PersistError")
    /\ held' = [held EXCEPT ![p] = TRUE]
    /\ UNCHANGED <<dir, fs, profile, overrides, doc, calls, repeatOf,
                   before, got, log, eff, paths, lastOut, sets>>

\* The caller drops the error of a failed rename: the file is removed.
DropError(p) ==
    /\ held[p]
    /\ held' = [held EXCEPT ![p] = FALSE]
    /\ fs' = [fs EXCEPT ![TempName(p)] = Absent]
    /\ UNCHANGED <<dir, pc, profile, overrides, doc, result, calls, repeatOf,
                   before, got, log, eff, paths, lastOut, sets>>

InFlight == {"read", "mkdir", "tmpnew", "write", "write2", "persist"}

\* The program dies between two steps of a call: nothing is cleaned up.
Crash(p) ==
    /\ pc[p] \in InFlight
    /\ pc' = [pc EXCEPT ![p] = "crashed"]
    /\ UNCHANGED <<dir, fs, profile, overrides, doc, result, held, calls, repeatOf,
                   before, got, log, eff, paths, lastOut, sets>>

IoSteps(p) ==
    \/ Read(p)
    \/ CreateDirAll(p)
    \/ CreateDirAllFails(p)
    \/ NewTempFile(p)
    \/ NewTempFileFails(p)
    \/ WriteBegin(p)
    \/ WriteEnd(p)
    \/ WriteFails(p)
    \/ Persist(p)
    \/ PersistFails(p)
    \/ DropError(p)

Steps(p) == IoSteps(p) \/ Crash(p)

Setters(p) ==
    \/ \E m \in Models : set_default_model(p, m)
    \/ \E n \in ProfileArgs : set_default_model_for_profile(p, <<n>>, "o3")
    \/ \E e \in Efforts : set_default_effort(p, e)
    \/ \E e \in Efforts : \E n \in ProfileArgs : set_default_effort_for_profile(p, <<n>>, e)

Direct(p) ==
    \E c \in DirectCalls : persist_overrides(p, c.profile, c.overrides)

\* One caller, one call after the other.
Next ==
    \/ calls[1] < MaxCalls /\ (Setters(1) \/ Direct(1))
    \/ Steps(1)

Spec == Init /\ [][Next]_vars

\* Two callers whose calls overlap.
ConcSetters(p) ==
    \/ set_default_model(p, "gpt-5")
    \/ set_default_effort(p, "High")
    \/ set_default_model_for_profile(p, <<"o3">>, "gpt-5")

NextConc ==
    \E p \in Procs :
        \/ calls[p] < MaxCallsConc /\ ConcSetters(p)
        \/ IoSteps(p)

SpecConc == InitConc /\ [][NextConc]_vars

(***************************************************************************)
(* Properties.                                                             *)
(***************************************************************************)
\* The call of p has executed step `step`.
HasStep(p, step) == \E i \in 1..Len(log[p]) : log[p][i] = step

\* The call of p has read and parsed the file and applied its overrides.
Loaded(p) == HasStep(p, "resolve")

Returned(p) == pc[p] = "done"

ReturnedErr(p) == Returned(p) /\ result[p] \notin {"Ok", "none"}

ReturnedOk(p) == Returned(p) /\ result[p] = "Ok"

RECURSIVE ItemAt(_, _)
\* The item found from table `t` along the exact keys of `path`, through
\* standard and inline tables; ItemNone when there is none.
ItemAt(t, path) ==
    IF path = <<>>
    THEN t
    ELSE IF t.kind \in {"table", "inline"} /\ IndexOf(t.ents, path[1]) # 0
         THEN ItemAt(t.ents[IndexOf(t.ents, path[1])].item, Tail(path))
         ELSE ItemNone

IsPrefix(a, b) == Len(a) <= Len(b) /\ SubSeq(b, 1, Len(a)) = a

\* The complete new text of the call of p.
NewText(p) == to_string(doc[p])

\* C1: a call that returns Err, whichever step failed, leaves config.toml,
\* or its absence, exactly as it was when the call was made.
C1_AllOrNothingOnError ==
    \A p \in Procs : ReturnedErr(p) => Config = before[p]

\* A call failed at its last step, the rename, with a new text that differs
\* from the file.
C1_Witness ==
    /\ ReturnedErr(1)
    /\ result[1] = "PersistError"
    /\ before[1].exists
    /\ NewText(1) # before[1].text
    /\ fs[TempName(1)] = File(NewText(1))

\* C2: when the text read does not parse, the call returns the parse error
\* having executed only the read and the parse: no override applied, no
\* directory created, no temporary file, no replace; the file is unchanged.
C2_ParseFailureWritesNothing ==
    \A p \in Procs :
        (pc[p] \notin {"idle", "read"} /\ got[p].exists /\ ~parse(got[p].text).ok)
        => /\ Returned(p)
           /\ result[p] = "ParseError"
           /\ log[p] = <<"read", "parse">>
           /\ doc[p] = DocumentNew
           /\ paths[p] = <<>>
           /\ \A q \in Procs : fs[TempName(q)] = Absent
           /\ Config = before[p]
           /\ Config = got[p]

C2_Witness ==
    /\ Returned(1)
    /\ result[1] = "ParseError"
    /\ Config = File(SeedInvalid)
    /\ overrides[1] = NestedOverrides

\* C3: at every point of a call, a crash included, config.toml holds what
\* it held when the call was made until the replace step, and the complete
\* new text from the replace step on; the temporary file alone holds a
\* part of the new text, and the replace comes after the write.
C3_AtomicReplace ==
    \A p \in Procs :
        calls[p] > 0 =>
            /\ IF HasStep(p, "persist")
               THEN Config = File(NewText(p)) /\ HasStep(p, "write")
               ELSE Config = before[p]
            /\ fs[TempName(p)].exists =>
                   /\ IsPrefix(fs[TempName(p)].text, NewText(p))
                   /\ HasStep(p, "new_in")
            /\ pc[p] = "persist" => fs[TempName(p)] = File(NewText(p))

\* The program died while the temporary file held only a part of the new
\* text, and config.toml still holds its old content.
C3_Witness ==
    /\ pc[1] = "crashed"
    /\ fs[TempName(1)].exists
    /\ fs[TempName(1)].text # NewText(1)
    /\ before[1].exists
    /\ Config = before[1]
    /\ Config.text # NewText(1)

\* C4: with two overlapping calls and no lock, config.toml always holds its
\* first content or the complete text of the call that replaced last, never
\* a mixture; so it does once both calls have finished.
C4_OverlappingCalls ==
    /\ Config = lastOut
    /\ (\A p \in Procs : pc[p] = "done" /\ result[p] = "Ok")
          => \E p \in Procs : Config = File(NewText(p))

\* Both calls read the same content, both replaced, their texts differ.
C4_Witness ==
    /\ ReturnedOk(1)
    /\ ReturnedOk(2)
    /\ got[1] = got[2]
    /\ NewText(1) # NewText(2)
    /\ Config = File(NewText(2))

\* C5: an override is written under ["profiles", name] exactly when the
\* effective profile is Some(name) and its first segment is not "profiles";
\* otherwise at its own segments.
C5_ProfilePrefixRule ==
    \A p \in Procs :
        Loaded(p) =>
            /\ Len(paths[p]) = Len(overrides[p])
            /\ \A i \in 1..Len(overrides[p]) :
                 LET segs == overrides[p][i].segments
                     prefixed == eff[p] # <<>> /\ (segs = <<>> \/ segs[1] # "profiles")
                 IN  IF prefixed
                     THEN paths[p][i] = <<"profiles", eff[p][1]>> \o segs
                     ELSE paths[p][i] = segs
            /\ LET n == Len(overrides[p])
               IN  ItemAt(doc[p].root, paths[p][n]) = value(overrides[p][n].val)

\* One call with a profile whose overrides fall on both sides of the rule.
C5_Witness ==
    /\ Loaded(1)
    /\ eff[1] = <<"o3">>
    /\ overrides[1] = NestedOverrides
    /\ paths[1][1] = <<"profiles", "o3", "a", "b", "c">>
    /\ paths[1][3] = <<"profiles", "p1", "model">>

\* The document the call of p read, before its overrides.
PreDoc(p) == LoadDoc(got[p], FALSE).doc

\* The document a file's content parses to.
FileDoc(content) == LoadDoc(content, FALSE).doc

\* The call of p writes one key given as a single segment, as the four
\* setters do.
IsSingleKey(p) == Len(overrides[p]) = 1 /\ Len(overrides[p][1].segments) = 1

TheKey(p) == overrides[p][1].segments[1]

TheVal(p) == overrides[p][1].val

Keys(t) == {t.ents[i].key : i \in 1..Len(t.ents)}

C7_ActiveProfileFromFile ==
    \A p \in Procs :
        (ReturnedOk(p) /\ profile[p] = <<>> /\ IsSingleKey(p) /\ TheKey(p) = "model") =>
            LET D0 == FileDoc(before[p])
                D1 == FileDoc(Config)
                f == as_str(Get(D0.root, "profile"))
            IN  (f # <<>> /\ ItemAt(D0.root, <<"profiles", f[1]>>) = ItemNone) =>
                    LET t == ItemAt(D1.root, <<"profiles", f[1]>>)
                    IN  /\ is_table(t)
                        /\ Len(t.ents) = 1
                        /\ t.ents[1].key = "model"
                        /\ t.ents[1].item = value(TheVal(p))
                        /\ ItemAt(D1.root, <<"model">>) = ItemAt(D0.root, <<"model">>)
                        /\ IndexOf(D1.root.ents, "profile") # 0
                        /\ D1.root.ents[IndexOf(D1.root.ents, "profile")]
                             = D0.root.ents[IndexOf(D0.root.ents, "profile")]

\* The seed of the repository's test: profile = "o3" alone.
C7_Witness ==
    /\ ReturnedOk(1)
    /\ profile[1] = <<>>
    /\ before[1] = File(<< Kv("profile", "o3") >>)
    /\ overrides[1] = << Override(<<"model">>, "o3") >>
    /\ Config = File(<< Kv("profile", "o3"), LineCmt(""),
                        LineHdr(<<"profiles", "o3">>), Kv("model", "o3") >>)

\* The lines of `text` without the root's own `key = ...` line.
RECURSIVE DropRootKey(_, _)
DropRootKey(text, key) ==
    IF text = <<>> \/ Head(text).t \in {"hdr", "aot"}
    THEN text
    ELSE IF Head(text).t = "kv" /\ Head(text).path = <<key>>
         THEN Tail(text)
         ELSE <<Head(text)>> \o DropRootKey(Tail(text), key)

\* What C8 says of one call that writes one key into a document without a
\* top-level `profile` key: the key is at the root, nothing is written
\* under `profiles`, and every other top-level entry keeps its key, value
\* and position; in the file, every other line stays as it was.
TopLevelWrite(p) ==
    LET k == TheKey(p)
        D0 == PreDoc(p)
    IN  /\ Get(doc[p].root, k) = value(TheVal(p))
        /\ Len(doc[p].root.ents) =
              Len(D0.root.ents) + (IF IndexOf(D0.root.ents, k) = 0 THEN 1 ELSE 0)
        /\ \A i \in 1..Len(D0.root.ents) :
              D0.root.ents[i].key # k => doc[p].root.ents[i] = D0.root.ents[i]
        /\ (ReturnedOk(p) /\ ~is_table(Get(D0.root, k))) =>
              DropRootKey(Config.text, k) = DropRootKey(got[p].text, k)

NoProfileKey(p) == IndexOf(PreDoc(p).root.ents, "profile") = 0

Sibling(k) == IF k = "model" THEN "model_reasoning_effort" ELSE "model"

\* The table a setter call of p writes into: the root, or profiles.<name>.
TargetTable(p) == IF eff[p] = <<>> THEN <<>> ELSE <<"profiles", eff[p][1]>>

\* C9: a call that writes only `model` leaves a `model_reasoning_effort`
\* already stored in the same table as it was, and the other way round, at
\* top level and inside a profile table, however the document holds that
\* table.
C9_SiblingPreservation ==
    \A p \in Procs :
        (Loaded(p) /\ IsSingleKey(p) /\ TheKey(p) \in {"model", "model_reasoning_effort"}) =>
            LET s == TargetTable(p) \o <<Sibling(TheKey(p))>>
                old == ItemAt(PreDoc(p).root, s)
            IN  old # ItemNone => ItemAt(doc[p].root, s) = old

\* C10: the profile name is one exact key: the write adds to `profiles` the
\* one child named by the whole name and no other key anywhere, and the
\* file has the header [profiles.<name>] with the name as one key.
C10_LiteralSegments ==
    \A p \in Procs :
        (ReturnedOk(p) /\ IsSingleKey(p) /\ eff[p] # <<>>) =>
            LET n == eff[p][1]
                D0 == FileDoc(before[p])
                D1 == FileDoc(Config)
                P0 == ItemAt(D0.root, <<"profiles">>)
                P1 == ItemAt(D1.root, <<"profiles">>)
            IN  /\ is_table(P1)
                /\ Keys(P1) = (IF is_table(P0) THEN Keys(P0) ELSE {}) \cup {n}
                /\ Keys(D1.root) = Keys(D0.root) \cup {"profiles"}
                /\ is_table(ItemAt(P1, <<n>>))
                /\ ItemAt(P1, <<n, TheKey(p)>>) = value(TheVal(p))
                /\ \E i \in 1..Len(Config.text) :
                       Config.text[i] = LineHdr(<<"profiles", n>>)

\* The name with a dot and a space, taken from the file's `profile` key.
C10_Witness ==
    /\ ReturnedOk(1)
    /\ eff[1] = <<"my.team name">>
    /\ before[1] = File(<< Kv("profile", "my.team name") >>)
    /\ overrides[1] = << Override(<<"model">>, "o3") >>
    /\ Config = File(<< Kv("profile", "my.team name"), LineCmt(""),
                        LineHdr(<<"profiles", "my.team name">>), Kv("model", "o3") >>)
    /\ Keys(ItemAt(FileDoc(Config).root, <<"profiles">>)) = {"my.team name"}

(***************************************************************************)
(* One override at a time: the document before and after each override of  *)
(* a call.                                                                 *)
(***************************************************************************)
\* The overrides of the call of p have just been applied.
Applied(p) == pc[p] = "mkdir"

\* The document of the call of p after its first i overrides.
DocAt(p, i) == ApplyOverrides(PreDoc(p), eff[p], SubSeq(overrides[p], 1, i), 1)

RECURSIVE TableAt(_, _)
\* The item found from `t` along `path` through standard tables only, the
\* way the applier descends; ItemNone when there is none.
TableAt(t, path) ==
    IF path = <<>>
    THEN t
    ELSE IF is_table(t) /\ IndexOf(t.ents, path[1]) # 0
         THEN TableAt(t.ents[IndexOf(t.ents, path[1])].item, Tail(path))
         ELSE ItemNone

Prefix(path, k) == SubSeq(path, 1, k)

IsScalar(item) == item.kind \in {"str", "int", "bool"}

HasLine(text, line) == \E j \in 1..Len(text) : text[j] = line

\* C11: when a non-final segment of an override's path names a key that
\* holds a scalar, the override puts a new table in its place, holding
\* nothing but the next segment, and writes the leaf beneath it; the
\* scalar's `key = value` is no longer in the document.
C11_ScalarPromotion ==
    \A p \in Procs :
        Applied(p) =>
            \A i \in 1..Len(paths[p]) :
                \A k \in 1..(Len(paths[p][i]) - 1) :
                    LET path == paths[p][i]
                        D0 == DocAt(p, i - 1)
                        D1 == DocAt(p, i)
                        old == TableAt(D0.root, Prefix(path, k))
                        new == TableAt(D1.root, Prefix(path, k))
                    IN  IsScalar(old) =>
                            /\ is_table(new)
                            /\ Keys(new) = {path[k + 1]}
                            /\ TableAt(D1.root, path) = value(overrides[p][i].val)
                            /\ ~HasLine(to_string(D1), LineKv(path[k], old))

\* The repository's test: foo = "bar", then foo.bar.baz = "ok".
C11_Witness ==
    /\ Applied(1)
    /\ got[1] = File(<< Kv("foo", "bar") >>)
    /\ overrides[1] = << Override(<<"foo", "bar", "baz">>, "ok") >>
    /\ NewText(1) = << LineHdr(<<"foo", "bar">>), Kv("baz", "ok") >>

\* C12: no override is dropped: for every override with at least one
\* segment the walk gets to the final segment without returning early, and
\* right after the override the document holds its value at its resolved
\* path; the call's document is the outcome of all its overrides.
C12_NoSilentDrops ==
    \A p \in Procs :
        Applied(p) =>
            /\ doc[p] = DocAt(p, Len(overrides[p]))
            /\ \A i \in 1..Len(overrides[p]) :
                  LET path == paths[p][i]
                  IN  overrides[p][i].segments # <<>> =>
                          /\ path # <<>>
                          /\ ReachesLeaf(DocAt(p, i - 1).root, path)
                          /\ TableAt(DocAt(p, i).root, path) = value(overrides[p][i].val)

\* Three overrides into a document that holds none of their tables, one
\* of them below an inline table that stands in the way.
C12_Witness ==
    /\ Applied(1)
    /\ got[1] = File(SeedInlineProfile)
    /\ profile[1] = <<"o3">>
    /\ overrides[1] = NestedOverrides
    /\ TableAt(doc[1].root, <<"profiles", "o3", "a", "b", "c">>) = value("v")
    /\ TableAt(doc[1].root, <<"profiles", "o3", "x">>) = value("y")
    /\ TableAt(doc[1].root, <<"profiles", "p1", "model">>) = value("gpt-5")

\* The text that holds the pairs of `kvs`, one `key = "value"` line each.
KvText(kvs) == [i \in 1..Len(kvs) |-> Kv(kvs[i][1], kvs[i][2])]

\* C13: a missing file or directory is read as an empty document and no
\* call returns an error for it; from an absent file, after any sequence of
\* setter calls without profile that returned Ok, config.toml holds
\* exactly the keys set, each with the value last set, in the order they
\* were first set.
C13_SequencesFromNothing ==
    /\ sets # <<>> =>
          Config = (IF sets[1] = <<>> THEN Absent ELSE File(KvText(sets[1])))
    /\ \A p \in Procs :
          /\ result[p] # "NotFound"
          /\ (Loaded(p) /\ ~got[p].exists) => PreDoc(p) = DocumentNew

\* Nothing at the start, then model "gpt-5", then effort high.
C13_Witness ==
    /\ ReturnedOk(1)
    /\ calls[1] = 2
    /\ sets = << << <<"model", "gpt-5">>, <<"model_reasoning_effort", "high">> >> >>
    /\ Config = File(<< Kv("model", "gpt-5"), Kv("model_reasoning_effort", "high") >>)

\* Path a is path b or lies above or below it.
Comparable(a, b) == IsPrefix(a, b) \/ IsPrefix(b, a)

\* C14: the overrides of a call are applied in the caller's order: when
\* two of them resolve to the same path, the document holds the later
\* one's value once the call's overrides are applied.
C14_OverrideOrder ==
    \A p \in Procs :
        Applied(p) =>
            \A i, j \in 1..Len(paths[p]) :
                (/\ i < j
                 /\ paths[p][i] = paths[p][j]
                 /\ paths[p][j] # <<>>
                 /\ \A k \in (j + 1)..Len(paths[p]) : ~Comparable(paths[p][k], paths[p][j]))
                => TableAt(doc[p].root, paths[p][j]) = value(overrides[p][j].val)

\* `model` is written twice in one call, under the file's profile.
C14_Witness ==
    /\ Applied(1)
    /\ got[1] = File(<< Kv("profile", "o3") >>)
    /\ overrides[1] = ProfileThenModel
    /\ paths[1][2] = paths[1][3]
    /\ overrides[1][2].val # overrides[1][3].val
    /\ TableAt(doc[1].root, <<"profiles", "o3", "model">>) = value("o3")

\* C15: the effective profile of a call is the one resolved from the
\* document as read, and every override of the call is written with it,
\* also after an earlier override of the call has written a `profile` key.
C15_ProfileResolvedOnce ==
    \A p \in Procs :
        Applied(p) =>
            LET e0 == effective_profile(PreDoc(p), profile[p])
            IN  /\ eff[p] = e0
                /\ \A i \in 1..Len(overrides[p]) :
                      LET path == OverrideSegments(e0, overrides[p][i].segments)
                      IN  /\ paths[p][i] = path
                          /\ (/\ path # <<>>
                              /\ \A k \in (i + 1)..Len(paths[p]) :
                                    ~Comparable(paths[p][k], path))
                             => TableAt(doc[p].root, path) = value(overrides[p][i].val)

\* The first override writes profile = "o3" into a document without a
\* profile; the later ones are still written at top level.
C15_Witness ==
    /\ Applied(1)
    /\ profile[1] = <<>>
    /\ ~got[1].exists
    /\ overrides[1] = ProfileThenModel
    /\ eff[1] = <<>>
    /\ effective_profile(DocAt(1, 1), profile[1]) = <<"o3">>
    /\ TableAt(doc[1].root, <<"model">>) = value("o3")
    /\ TableAt(doc[1].root, <<"profiles">>) = ItemNone

\* The read of the call of p returned a text that parsed, or NotFound.
ReadOk(p) ==
    /\ Len(log[p]) >= 2
    /\ got[p].exists => parse(got[p].text).ok

\* C16: without a profile argument, when the document's top-level
\* `profile` is absent or is not a string, the call goes on with no
\* effective profile: every override is written at its own segments, at
\* top level, and the `profile` entry stays as it was.
C16_UnusableProfileKey ==
    \A p \in Procs :
        (/\ ReadOk(p)
         /\ profile[p] = <<>>
         /\ Get(PreDoc(p).root, "profile").kind # "str")
        => /\ Loaded(p)
           /\ eff[p] = <<>>
           /\ \A i \in 1..Len(overrides[p]) : paths[p][i] = overrides[p][i].segments
           /\ IsSingleKey(p) => TableAt(doc[p].root, <<TheKey(p)>>) = value(TheVal(p))
           /\ (\A i \in 1..Len(paths[p]) : ~IsPrefix(<<"profile">>, paths[p][i]))
                 => /\ Get(doc[p].root, "profile") = Get(PreDoc(p).root, "profile")
                    /\ IsSingleKey(p) =>
                          DropRootKey(NewText(p), TheKey(p))
                              = DropRootKey(got[p].text, TheKey(p))

\* profile = 42: the model is written at top level, next to it.
C16_Witness ==
    /\ Applied(1)
    /\ profile[1] = <<>>
    /\ got[1] = File(SeedProfileInt)
    /\ overrides[1] = << Override(<<"model">>, "o3") >>
    /\ NewText(1) = << LineKv("profile", Scalar("int", "42")), Kv("model", "o3") >>

RECURSIVE FrameOk(_, _, _)
\* Table t1 is table t0 but for the entry of the first key of `path`:
\* the table's own marking, position and decor, every other entry and the
\* order of the entries are the same, the entry of that key is where it
\* was, or last when it is new, with its key decor; and so on below,
\* inside the tables that were already there.
FrameOk(t0, t1, path) ==
    LET key == path[1]
        i0 == IndexOf(t0.ents, key)
    IN  /\ [t1 EXCEPT !.ents = <<>>] = [t0 EXCEPT !.ents = <<>>]
        /\ Len(t1.ents) = Len(t0.ents) + (IF i0 = 0 THEN 1 ELSE 0)
        /\ \A i \in 1..Len(t0.ents) :
              IF t0.ents[i].key # key
              THEN t1.ents[i] = t0.ents[i]
              ELSE t1.ents[i].key = key /\ t1.ents[i].kdecor = t0.ents[i].kdecor
        /\ i0 = 0 => t1.ents[Len(t1.ents)].key = key
        /\ (Len(path) > 1 /\ i0 # 0 /\ is_table(t0.ents[i0].item))
              => FrameOk(t0.ents[i0].item, t1.ents[i0].item, Tail(path))

\* C17: one override changes only what lies on its path: every table that
\* was on the path keeps all its other children, in their places, and its
\* own formatting; everything that is not on the path nor below a node
\* replaced on it stays as it was, the lines after the last entry too.
C17_FrameOfApply ==
    \A p \in Procs :
        Applied(p) =>
            \A i \in 1..Len(paths[p]) :
                LET D0 == DocAt(p, i - 1)
                    D1 == DocAt(p, i)
                IN  IF paths[p][i] = <<>>
                    THEN D1 = D0
                    ELSE /\ FrameOk(D0.root, D1.root, paths[p][i])
                         /\ D1.trailing = D0.trailing

\* The repository's test with comments: one line is added below the
\* profile's table and every other line is the same.
C17_Witness ==
    /\ Applied(1)
    /\ got[1] = File(SeedComments)
    /\ paths[1] = << <<"profiles", "o3", "model">> >>
    /\ NewText(1) = SeedComments \o << Kv("model", "o3") >>

\* C18: the final segment's key gets the value whatever it held: nothing,
\* a value of any kind, an inline table or a table; of a table that was
\* there nothing is left, neither a child nor a header in the text.
C18_LeafOverwrite ==
    \A p \in Procs :
        Applied(p) =>
            \A i \in 1..Len(paths[p]) :
                LET path == paths[p][i]
                    D0 == DocAt(p, i - 1)
                    D1 == DocAt(p, i)
                    old == TableAt(D0.root, path)
                    text == to_string(D1)
                IN  path # <<>> =>
                        /\ TableAt(D1.root, path) = value(overrides[p][i].val)
                        /\ \A k \in Keys(old) : TableAt(D1.root, Append(path, k)) = ItemNone
                        /\ is_table(old) =>
                              \A j \in 1..Len(text) :
                                  text[j].t = "hdr" => ~IsPrefix(path, text[j].path)

\* The final key `profiles` holds the table of [profiles.o3].
C18_Witness ==
    /\ Applied(1)
    /\ got[1] = File(SeedProfileTable)
    /\ eff[1] = <<>>
    /\ overrides[1] = EmptyThenProfiles
    /\ is_table(TableAt(PreDoc(1).root, <<"profiles", "o3">>))
    /\ NewText(1) = << Kv("profiles", "none") >>

\* C19: a table the applier makes for a non-final segment, for a missing
\* key or in place of a non-table, is implicit, and a table that was there
\* keeps its marking; an implicit table without a value of its own has no
\* header in the text.  Writing [a, b, c] into an empty document gives an
\* implicit `a` that holds only the table `b`, and `b` holds the key `c`.
C19_ImplicitScaffolding ==
    \A p \in Procs :
        Applied(p) =>
            \A i \in 1..Len(paths[p]) :
                LET path == paths[p][i]
                    D0 == DocAt(p, i - 1)
                    D1 == DocAt(p, i)
                IN  /\ \A k \in 1..(Len(path) - 1) :
                          LET old == TableAt(D0.root, Prefix(path, k))
                              new == TableAt(D1.root, Prefix(path, k))
                          IN  /\ is_table(new)
                              /\ new.implicit = (IF is_table(old) THEN old.implicit ELSE TRUE)
                              /\ (new.implicit /\ ValueLines(new.ents, 1) = <<>>)
                                    => ~HasLine(to_string(D1), LineHdr(Prefix(path, k)))
                    /\ (D0 = DocumentNew /\ path = <<"a", "b", "c">>) =>
                          LET a == TableAt(D1.root, <<"a">>)
                              b == TableAt(D1.root, <<"a", "b">>)
                          IN  /\ a.implicit
                              /\ Keys(a) = {"b"}
                              /\ is_table(b)
                              /\ b.ents = << Entry("c", <<>>, value(overrides[p][i].val)) >>
                              /\ to_string(D1) = << LineHdr(<<"a", "b">>),
                                                    Kv("c", overrides[p][i].val) >>

\* The repository's test of nested tables, from no file: [a.b] and
\* [profiles.p1] are the only headers.
C19_Witness ==
    /\ Applied(1)
    /\ ~got[1].exists
    /\ profile[1] = <<>>
    /\ overrides[1] = NestedOverrides
    /\ NewText(1) = << Kv("x", "y"), LineCmt(""), LineHdr(<<"a", "b">>), Kv("c", "v"),
                       LineCmt(""), LineHdr(<<"profiles", "p1">>), Kv("model", "gpt-5") >>

\* The document root of what config.toml holds.
Fin == FileDoc(Config).root

\* The read of the call of p returned a document with the value of the
\* call of q at its path.
Saw(p, q) == TableAt(FileDoc(got[p]).root, paths[q][1]) = value(TheVal(q))

\* C20: of two overlapping calls that returned Ok and set different keys,
\* the file is the complete text of one of them, so both keys are in the
\* file only if the read of one call saw what the other had written; when
\* both reads returned the same content without either key, the file
\* holds the key of the call that replaced last and not the other's.
C20_LostUpdate ==
    \A p, q \in Procs :
        (/\ p # q
         /\ ReturnedOk(p) /\ IsSingleKey(p)
         /\ ReturnedOk(q) /\ IsSingleKey(q)
         /\ ~Comparable(paths[p][1], paths[q][1]))
        => /\ Config \in {File(NewText(p)), File(NewText(q))}
           /\ (/\ TableAt(Fin, paths[p][1]) = value(TheVal(p))
               /\ TableAt(Fin, paths[q][1]) = value(TheVal(q)))
              => (Saw(p, q) \/ Saw(q, p))
           /\ (/\ got[p] = got[q]
               /\ TableAt(FileDoc(got[p]).root, paths[p][1]) = ItemNone
               /\ TableAt(FileDoc(got[q]).root, paths[q][1]) = ItemNone)
              => \E x \in {p, q} :
                     LET y == IF x = p THEN q ELSE p
                     IN  /\ lastOut = File(NewText(x))
                         /\ TableAt(Fin, paths[x][1]) = value(TheVal(x))
                         /\ TableAt(Fin, paths[y][1]) = ItemNone

\* Both calls read the absent file; the one that sets the effort replaced
\* last and the model set by the other is not in the file.
C20_Witness ==
    /\ ReturnedOk(1)
    /\ ReturnedOk(2)
    /\ ~got[1].exists
    /\ ~got[2].exists
    /\ overrides[1] = << Override(<<"model">>, "gpt-5") >>
    /\ overrides[2] = << Override(<<"model_reasoning_effort">>, "high") >>
    /\ Config = File(<< Kv("model_reasoning_effort", "high") >>)

\* C21: an intermediate segment that names an inline table or an array of
\* tables is treated like a scalar: the override puts a new empty implicit
\* table in its place, which then holds nothing but the next segment, so
\* every entry the item held is gone.  For a setter call that names a
\* profile this means: when `profiles` or `profiles.<name>` was not a
\* standard table, the file after the call holds under it the one key on
\* the way to the written leaf and nothing else.
C21_NonStandardTableDiscarded ==
    \A p \in Procs :
        /\ Applied(p) =>
              \A i \in 1..Len(paths[p]) :
                  \A k \in 1..(Len(paths[p][i]) - 1) :
                      LET path == paths[p][i]
                          D0 == DocAt(p, i - 1)
                          D1 == DocAt(p, i)
                          old == TableAt(D0.root, Prefix(path, k))
                          new == TableAt(D1.root, Prefix(path, k))
                      IN  old.kind \in {"inline", "aot"} =>
                              /\ is_table(new)
                              /\ new.implicit
                              /\ new.decor = <<>>
                              /\ Keys(new) = {path[k + 1]}
                              /\ \A j \in 1..Len(old.ents) :
                                    old.ents[j].key # path[k + 1] =>
                                        ItemAt(D1.root,
                                               Append(Prefix(path, k), old.ents[j].key)) = ItemNone
                              /\ TableAt(D1.root, path) = value(overrides[p][i].val)
        /\ (ReturnedOk(p) /\ IsSingleKey(p) /\ eff[p] # <<>>) =>
              LET D0 == PreDoc(p)
                  D1 == FileDoc(Config)
                  ps == Get(D0.root, "profiles")
                  pn == TableAt(D0.root, TargetTable(p))
              IN  /\ ps.kind \in {"inline", "aot"} =>
                        /\ Keys(Get(D1.root, "profiles")) = {eff[p][1]}
                        /\ Keys(TableAt(D1.root, TargetTable(p))) = {TheKey(p)}
                        /\ \A j \in 1..Len(Config.text) :
                              Config.text[j].t \in {"kv", "aot"} =>
                                  Config.text[j].path # <<"profiles">>
                  /\ pn.kind \in {"inline", "aot"} =>
                        /\ Keys(TableAt(D1.root, TargetTable(p))) = {TheKey(p)}
                        /\ ~HasLine(Config.text, LineKv(eff[p][1], pn))

\* `profiles` is an inline table holding the profiles o3 and p1; the model
\* of profile o3 is set: o3's effort and the profile p1 are gone.
C21_Witness ==
    /\ ReturnedOk(1)
    /\ got[1] = File(SeedInlineProfiles)
    /\ profile[1] = <<"o3">>
    /\ overrides[1] = << Override(<<"model">>, "o3") >>
    /\ Config = File(<< LineHdr(<<"profiles", "o3">>), Kv("model", "o3") >>)

RECURSIVE ItemPaths(_)
\* The paths of all keys below `t`, through tables and inline tables.
ItemPaths(t) ==
    IF t.kind \notin {"table", "inline"}
    THEN {}
    ELSE UNION { {<<t.ents[i].key>>}
                   \cup { <<t.ents[i].key>> \o q : q \in ItemPaths(t.ents[i].item) }
                 : i \in 1..Len(t.ents) }

\* The call of p, a repeat, has left the file as its first call left it:
\* same text, and the document has the keys and tables it was read with.
SameAsFirst(p) ==
    /\ Config = before[p]
    /\ NewText(p) = before[p].text
    /\ ItemPaths(doc[p].root) = ItemPaths(PreDoc(p).root)

\* C22 as stated: a repeat of a successful call, with the same profile
\* argument and the same overrides and the file untouched in between,
\* leaves the file exactly as the first call left it and adds no key and
\* no table.
C22_Original ==
    \A p \in Procs :
        (repeatOf[p] # <<>> /\ ReturnedOk(p)) => SameAsFirst(p)

\* The call of p writes the top-level key `profile`: it resolved no
\* effective profile and one of its overrides is the one segment `profile`.
WritesProfileKey(p) ==
    /\ profile[p] = <<>>
    /\ \E i \in 1..Len(overrides[p]) : overrides[p][i].segments = <<"profile">>

\* C22: a repeat of a successful call that resolves the effective profile
\* its first call resolved leaves the file exactly as the first call left
\* it and adds no key and no table.  The repeat resolves another profile
\* only when the first call, given no profile argument and finding no
\* usable `profile` key, wrote the top-level `profile` key itself; a
\* setter never does, so a repeated setter call is always idempotent.
C22_Idempotence ==
    \A p \in Procs :
        /\ (repeatOf[p] # <<>> /\ ReturnedOk(p) /\ eff[p] = repeatOf[p][1])
              => SameAsFirst(p)
        /\ (repeatOf[p] # <<>> /\ Loaded(p) /\ eff[p] # repeatOf[p][1])
              => /\ WritesProfileKey(p)
                 /\ repeatOf[p][1] = <<>>
                 /\ ~IsSetterList(overrides[p])

\* The second of two equal calls that set the model of profile o3, on a
\* file that the first call created: the leaf is updated in place.
C22_Witness ==
    /\ ReturnedOk(1)
    /\ repeatOf[1] = << <<"o3">> >>
    /\ eff[1] = <<"o3">>
    /\ overrides[1] = NestedOverrides
    /\ before[1].exists
    /\ Config = before[1]

\* C23: the temporary file is removed on every exit without success after
\* its creation; once a call has returned, Ok or Err, CODEX_HOME holds no
\* temporary file of that call.
C23_TempFileCleanup ==
    \A p \in Procs : Returned(p) => fs[TempName(p)] = Absent

====
